---- MODULE Spec2Model ----
(***************************************************************************)
(* The paginated list view (ProductCard) of the storefront front-end:      *)
(* component state, the effect that merges page responses, and the manual  *)
(* load-more handler, together with the paged-query collaborator           *)
(* (useGetPaginatedProductRequests) seen as a nondeterministic environment.*)
(***************************************************************************)
EXTENDS Integers, Sequences, FiniteSets

VARIABLES
    page,            \* useState(1)                       ProductCard.tsx:13
    hasMore,         \* useState(true)                    ProductCard.tsx:14
    allProducts,     \* useState([])                      ProductCard.tsx:15
    isLoadingMore,   \* useState(false)                   ProductCard.tsx:16
    lastLoadedPage,  \* useRef(0)                         ProductCard.tsx:19
    productData,     \* data returned by the query hook   ProductCard.tsx:25
    error,           \* error returned by the query hook  ProductCard.tsx:27
    dataPage,        \* page whose fetch produced productData (0: none)
    effectPending,   \* a dependency of the effect changed: it runs next
    last,            \* history: what the last effect run or trigger did
    delivered,       \* history: results observed since the current fetch began
    atStart,         \* history: list, has-more, marker when that fetch began
    products,        \* detail page: the catalog (mock data)    part_000:3
    id,              \* detail page: route parameter            part_000:11
    isEditing,       \* detail page: useState(false)            part_000:19
    editedProduct,   \* detail page: useState(product)          part_000:20
    detailLast       \* history: the last detail-page handler and its input

listVars == <<page, hasMore, allProducts, isLoadingMore, lastLoadedPage,
              productData, error, dataPage, effectPending,
              last, delivered, atStart>>

detailVars == <<products, id, isEditing, editedProduct, detailLast>>

vars == <<listVars, detailVars>>

compVars == <<page, hasMore, allProducts, isLoadingMore, lastLoadedPage>>

----------------------------------------------------------------------------
\* Program constant and model bounds

pageSize == 8

MaxPage == 2
MaxStart == 2
MaxDelivered == 2
MaxCatalog == 2
MaxText == 2

----------------------------------------------------------------------------
\* Product records and the responses the collaborator may hold

Product(i, n) == [id |-> i, name |-> n]

\* ids a, a+1, ..., a+len-1, all carrying payload n
Range(a, len, n) == [k \in 1..len |-> Product(a + k - 1, n)]

Starts == {1 + k * (pageSize \div 2) : k \in 0..(MaxStart - 1)}
\* response sizes: empty, one short of a page, a full page
Lens == {0, pageSize - 1, pageSize}

\* arrays of records with pairwise distinct identifiers; a full page also
\* comes with its records changed (same identifiers, another name)
PlainArrays ==
    {Range(a, len, 1) : a \in Starts, len \in Lens}
    \cup {Range(a, pageSize, 2) : a \in Starts}

\* arrays that repeat an identifier inside themselves: a short one and a
\* page-size one
RepeatArrays ==
    {<<Product(a, 1), Product(a, 2)>> : a \in Starts}
    \cup {Range(a, pageSize - 1, 1) \o <<Product(a, 1)>> : a \in Starts}

Arrays == PlainArrays \cup RepeatArrays

\* productData as the effect inspects it (lines 48-54):
\*   "absent"   productData is undefined
\*   "nodata"   productData.data is undefined or null (an empty object)
\*   "nonarray" productData.data is something that is not an array
\*   "array"    productData.data is an array (possibly empty)
Absent == [kind |-> "absent", data |-> <<>>]
NoData == [kind |-> "nodata", data |-> <<>>]
NonArray == [kind |-> "nonarray", data |-> <<>>]
ArrayData(s) == [kind |-> "array", data |-> s]

Payloads == {NoData, NonArray} \cup {ArrayData(s) : s \in Arrays}
----------------------------------------------------------------------------
\* The effect's pure parts (ProductCard.tsx:32-93)

\* lines 48-51
hasValidData(pd) == pd.kind \notin {"absent", "nodata"}

\* line 54
hasDataArray(pd) == hasValidData(pd) /\ pd.kind = "array"

\* variant of the line-36 guard that never holds
AlreadyLoadedNever(marker, p) == FALSE

\* variant of the line-36 guard with the comparison inverted
AlreadyLoadedInverted(marker, p) == marker # p

\* line 36: the marker already equals the current page
AlreadyLoaded(marker, p) == marker = p

\* prev.some((existingProduct) => existingProduct.id === newProduct.id)
SomeId(prev, i) == \E k \in 1..Len(prev) : prev[k].id = i

\* variant of the filter that compares whole records instead of identifiers
RECURSIVE newProductsByRecord(_, _)
newProductsByRecord(prev, data) ==
    IF data = <<>> THEN <<>>
    ELSE IF \E k \in 1..Len(prev) : prev[k] = Head(data)
         THEN newProductsByRecord(prev, Tail(data))
         ELSE <<Head(data)>> \o newProductsByRecord(prev, Tail(data))

\* lines 67-72: data.filter(newProduct => !prev.some(...)), in response order
RECURSIVE newProducts(_, _)
newProducts(prev, data) ==
    IF data = <<>> THEN <<>>
    ELSE IF SomeId(prev, Head(data).id)
         THEN newProducts(prev, Tail(data))
         ELSE <<Head(data)>> \o newProducts(prev, Tail(data))

\* variant of the end test that only looks at the response size
ReachedEndShortOnly(data, fresh) == Len(data) < pageSize

\* line 75
ReachedEnd(data, fresh) == Len(data) < pageSize \/ Len(fresh) = 0

\* variant of the updater that also filters each item against the items
\* before it in the same response, on every page
RECURSIVE UpdatedProductsUnique(_, _, _)
UpdatedProductsUnique(prev, data, p) ==
    IF data = <<>> THEN IF p = 1 THEN <<>> ELSE prev
    ELSE IF SomeId(IF p = 1 THEN <<>> ELSE prev, Head(data).id)
         THEN UpdatedProductsUnique(prev, Tail(data), p)
         ELSE UpdatedProductsUnique(
                  (IF p = 1 THEN <<>> ELSE prev) \o <<Head(data)>>, Tail(data), 2)

\* lines 62-80: the value the setAllProducts updater returns
UpdatedProducts(prev, data, p) ==
    IF p = 1 THEN data
    ELSE prev \o newProducts(prev, data)

\* variant that sets has-more from the end test on every merge
HasMoreAfterMergeAssign(hm, prev, data, p) ==
    ~ReachedEnd(data, newProducts(prev, data))

\* lines 64, 74-77: has-more after the updater ran
HasMoreAfterMerge(hm, prev, data, p) ==
    IF p = 1 THEN hm
    ELSE IF ReachedEnd(data, newProducts(prev, data)) THEN FALSE ELSE hm

\* lines 83-86: the list after an absent or invalid response
ProductsAfterInvalid(prev, p) == IF p = 1 THEN <<>> ELSE prev

\* variant of the line-97 test that forgets has-more
LoadRefusedInFlightOnly(loading, hm) == loading

\* line 97: the trigger returns without doing anything
LoadRefused(loading, hm) == loading \/ ~hm

\* variant of the line-100 updater that skips a page
NextPageSkip(p) == p + 2

\* line 100: setPage((prev) => prev + 1)
NextPage(p) == p + 1

----------------------------------------------------------------------------
\* The paged-query collaborator (useGetPaginatedProductRequests)

\* what the hook may return on the first render with a page number q:
\* nothing yet, the data it held before (kept while q is fetched), data it
\* has cached for q, or an error it has cached for q
FirstOutputs(q, heldData, heldPage) ==
    {[data |-> Absent, err |-> FALSE, of |-> 0]}
    \cup {[data |-> heldData, err |-> FALSE, of |-> heldPage]}
    \cup {[data |-> d, err |-> FALSE, of |-> q] : d \in Payloads}
    \cup {[data |-> Absent, err |-> TRUE, of |-> 0]}

\* what a finished fetch for page q delivers: a payload, or an error (the
\* data held so far is kept)
Deliveries(q, heldData, heldPage) ==
    {[data |-> d, err |-> FALSE, of |-> q] : d \in Payloads}
    \cup {[data |-> heldData, err |-> TRUE, of |-> heldPage]}

\* history: the number of results (data or error) the component has been
\* shown for the current fetch, counted up to MaxDelivered
Observed(pd, err, n) ==
    IF pd.kind = "absent" /\ ~err THEN n
    ELSE IF n < MaxDelivered THEN n + 1 ELSE n

Snapshot == [list |-> allProducts, more |-> hasMore, marker |-> lastLoadedPage]

----------------------------------------------------------------------------
\* The detail page (ProductDetailPage, part_000)

Texts == 0..MaxText

\* the static catalog: records with an identifier and the displayed fields
Catalog ==
    [k \in 1..MaxCatalog |->
        [id |-> k, name |-> k % (MaxText + 1), desc |-> 0,
         category |-> (k + 1) % (MaxText + 1)]]

\* String(n) for a natural number
Digits == <<"0", "1", "2", "3", "4", "5", "6", "7", "8", "9">>
RECURSIVE String(_)
String(n) ==
    IF n < 10 THEN Digits[n + 1]
    ELSE String(n \div 10) \o Digits[(n % 10) + 1]

\* route parameters: one for each catalog entry and one that matches none
RouteIds == {String(k) : k \in 1..(MaxCatalog + 1)}

\* line 13: products.find(p => String(p.id) === String(id)); 0: undefined
Find(cat, rid) ==
    IF \E k \in 1..Len(cat) : String(cat[k].id) = rid
    THEN CHOOSE k \in 1..Len(cat) :
             /\ String(cat[k].id) = rid
             /\ \A j \in 1..(k - 1) : String(cat[j].id) # rid
    ELSE 0

found == Find(products, id) # 0
product == products[Find(products, id)]

\* names of the form inputs (lines 73, 86, 104)
FieldNames == {"name", "description", "category"}

\* variant of the handleChange updater without the spread
ChangedProductOnlyField(prevState, name, value) == [k \in {name} |-> value]

\* lines 40-43: ({...prevState, [name]: value})
ChangedProduct(prevState, name, value) ==
    [k \in (DOMAIN prevState) \cup {name} |->
        IF k = name THEN value ELSE prevState[k]]

\* variant of handleChange that writes into the object it was given, which
\* is the catalog entry as long as no copy has been made
CatalogWrittenInPlace(cat, i, prevState, name, value) ==
    IF prevState = cat[i]
    THEN [cat EXCEPT ![i] = ChangedProduct(cat[i], name, value)]
    ELSE cat

\* lines 40-43: the updater builds a new object, the catalog is not written
CatalogAfterChange(cat, i, prevState, name, value) == cat

\* variant of handleCancel that keeps the working copy
ProductAfterCancelKept(prevState, source) == prevState

\* line 28: setEditedProduct(product)
ProductAfterCancel(prevState, source) == source

NoInput == [op |-> "none", field |-> "", value |-> 0, prev |-> <<>>]
Did(op) == [op |-> op, field |-> "", value |-> 0, prev |-> editedProduct]

\* the detail page is not shown
DetailUnmounted ==
    /\ products = Catalog
    /\ id = ""
    /\ isEditing = FALSE
    /\ editedProduct = <<>>
    /\ detailLast = NoInput

\* the list view is not shown
ListUnmounted ==
    /\ page = 1
    /\ hasMore = TRUE
    /\ allProducts = <<>>
    /\ isLoadingMore = FALSE
    /\ lastLoadedPage = 0
    /\ productData = Absent
    /\ error = FALSE
    /\ dataPage = 0
    /\ effectPending = FALSE
    /\ last = "none"
    /\ delivered = 0
    /\ atStart = [list |-> <<>>, more |-> TRUE, marker |-> 0]

\* lines 10-20: the first render of the detail page
DetailInit ==
    /\ ListUnmounted
    /\ products = Catalog
    /\ id \in RouteIds
    /\ isEditing = FALSE
    /\ editedProduct = IF found THEN product ELSE <<>>
    /\ detailLast = NoInput

\* lines 22-24; the Edit button is there when not editing (line 133)
handleEdit ==
    /\ found
    /\ ~isEditing
    /\ isEditing' = TRUE
    /\ detailLast' = Did("edit")
    /\ UNCHANGED <<products, id, editedProduct, listVars>>

\* lines 26-29; the Cancel button is there when editing (line 141)
handleCancel ==
    /\ found
    /\ isEditing
    /\ isEditing' = FALSE
    /\ editedProduct' = ProductAfterCancel(editedProduct, product)
    /\ detailLast' = Did("cancel")
    /\ UNCHANGED <<products, id, listVars>>

\* lines 31-35; the Confirm button is there when editing (line 133)
handleConfirm ==
    /\ found
    /\ isEditing
    /\ isEditing' = FALSE
    /\ detailLast' = Did("confirm")
    /\ UNCHANGED <<products, id, editedProduct, listVars>>

\* lines 38-44; the inputs are there when editing (lines 70-108)
handleChange ==
    /\ found
    /\ isEditing
    /\ \E name \in FieldNames : \E value \in Texts :
           /\ editedProduct' = ChangedProduct(editedProduct, name, value)
           /\ products' = CatalogAfterChange(products, Find(products, id),
                                             editedProduct, name, value)
           /\ detailLast' = [op |-> "change", field |-> name, value |-> value,
                             prev |-> editedProduct]
    /\ UNCHANGED <<id, isEditing, listVars>>

DetailNext == handleEdit \/ handleCancel \/ handleConfirm \/ handleChange

DetailSpec == DetailInit /\ [][DetailNext]_vars

----------------------------------------------------------------------------
\* State after construction: the first render, before the mount-time effect

Init ==
    /\ page = 1
    /\ hasMore = TRUE
    /\ allProducts = <<>>
    /\ isLoadingMore = FALSE
    /\ lastLoadedPage = 0
    /\ \E o \in FirstOutputs(1, Absent, 0) :
           /\ productData = o.data
           /\ error = o.err
           /\ dataPage = o.of
    /\ effectPending = TRUE
    /\ last = "none"
    /\ delivered = Observed(productData, error, 0)
    /\ atStart = [list |-> <<>>, more |-> TRUE, marker |-> 0]
    /\ DetailUnmounted

\* useEffect(..., [productData, page, pageSize, error])   lines 32-93
Effect ==
    /\ effectPending
    /\ effectPending' = FALSE
    /\ IF AlreadyLoaded(lastLoadedPage, page)
       THEN /\ last' = "guard"
            /\ UNCHANGED compVars
       ELSE IF error
       THEN /\ last' = "error"
            /\ isLoadingMore' = FALSE
            /\ UNCHANGED <<page, hasMore, allProducts, lastLoadedPage>>
       ELSE IF hasDataArray(productData)
       THEN /\ last' = "valid"
            /\ lastLoadedPage' = page
            /\ allProducts' = UpdatedProducts(allProducts, productData.data, page)
            /\ hasMore' = HasMoreAfterMerge(hasMore, allProducts, productData.data, page)
            /\ isLoadingMore' = FALSE
            /\ UNCHANGED page
       ELSE /\ last' = "invalid"
            /\ allProducts' = ProductsAfterInvalid(allProducts, page)
            /\ hasMore' = FALSE
            /\ isLoadingMore' = FALSE
            /\ UNCHANGED <<page, lastLoadedPage>>
    /\ UNCHANGED <<productData, error, dataPage, delivered, atStart>>
    /\ UNCHANGED detailVars

\* handleManualLoad   lines 96-101; the render that follows reads the hook
\* with the new page number
handleManualLoad ==
    /\ ~effectPending
    /\ UNCHANGED detailVars
    /\ IF LoadRefused(isLoadingMore, hasMore)
       THEN /\ last' = "refused"
            /\ UNCHANGED <<compVars, productData, error, dataPage,
                           effectPending, delivered, atStart>>
       ELSE /\ page < MaxPage
            /\ last' = "accepted"
            /\ isLoadingMore' = TRUE
            /\ page' = NextPage(page)
            /\ \E o \in FirstOutputs(NextPage(page), productData, dataPage) :
                   /\ productData' = o.data
                   /\ error' = o.err
                   /\ dataPage' = o.of
                   /\ delivered' = Observed(o.data, o.err, 0)
            /\ effectPending' = TRUE
            /\ atStart' = Snapshot
            /\ UNCHANGED <<hasMore, allProducts, lastLoadedPage>>

\* the collaborator finishes a fetch (the first one for the page, or one
\* started by productFetch() at line 33) and the component re-renders
QueryResolve ==
    /\ ~effectPending
    /\ \E o \in Deliveries(page, productData, dataPage) :
           /\ productData' = o.data
           /\ error' = o.err
           /\ dataPage' = o.of
    /\ effectPending' = TRUE
    /\ delivered' = Observed(productData', error', delivered)
    /\ UNCHANGED <<compVars, last, atStart>>
    /\ UNCHANGED detailVars

----------------------------------------------------------------------------
\* What the component renders (ProductCard.tsx:103-227)

\* isLoading of the query hook: a first fetch with neither data nor error yet
loadingProducts == productData.kind = "absent" /\ ~error

\* lines 104-128: the two early returns, else the product grid
View ==
    IF loadingProducts /\ page = 1 THEN "loading"
    ELSE IF ~loadingProducts /\ Len(allProducts) = 0 THEN "empty"
    ELSE "list"

\* lines 196-224: what stands below the grid
Control ==
    IF View # "list" THEN "none"
    ELSE IF hasMore THEN (IF isLoadingMore THEN "disabled" ELSE "enabled")
    ELSE IF Len(allProducts) > 0 THEN "exhausted"
    ELSE "none"

Next == Effect \/ handleManualLoad \/ QueryResolve

Spec == Init /\ [][Next]_vars

\* React runs the effect after every render whose dependencies changed
LiveSpec == Spec /\ WF_vars(Effect)
----------------------------------------------------------------------------
\* Properties of the list view

DistinctIds(s) ==
    \A i \in 1..Len(s) : \A j \in 1..Len(s) : i # j => s[i].id # s[j].id

\* after an effect run that took a data branch, productData is what it processed
Processed == ~effectPending /\ last \in {"valid", "invalid"}

\* a step of handleManualLoad
TriggerStep ==
    /\ last' \in {"refused", "accepted"}
    /\ last' # last \/ page' # page

\* C1: the accumulated list never holds two entries with the same
\* identifier, whatever the page responses contain.
C1_NoDuplicateIds == DistinctIds(allProducts)

\* C2: once a valid array response for the current page (the first page
\* included) with fewer than pageSize items has been processed, has-more is
\* false.
C2_ShortPageEndsList ==
    (/\ ~effectPending
     /\ last = "valid"
     /\ dataPage = page
     /\ Len(productData.data) < pageSize) => ~hasMore

\* C3: once the marker equals the current page, nothing that happens while
\* the page number stays the same (a response delivered again with the same
\* or other contents, and the effect run that follows) changes the
\* accumulated list, has-more or the marker.
C3_MergedAtMostOnce ==
    [][(lastLoadedPage = page /\ page' = page)
         => UNCHANGED <<allProducts, hasMore, lastLoadedPage>>]_vars

\* a response other than the merged one was delivered for the merged first
\* page, and the effect ran and left the list alone
C3_Witness ==
    /\ ~effectPending
    /\ last = "guard"
    /\ page = 1
    /\ lastLoadedPage = 1
    /\ productData.kind = "array"
    /\ productData.data # <<>>
    /\ allProducts # <<>>
    /\ productData.data # allProducts

\* C4: a load-more trigger issued while the in-flight flag is set or has-more
\* is false changes neither the page number nor the in-flight flag nor
\* has-more nor the list, and causes no fetch (the hook's output and the
\* pending effect run are as before).
C4_RefusedTriggerIsNoOp ==
    [][((isLoadingMore \/ ~hasMore) /\ TriggerStep)
         => UNCHANGED <<page, isLoadingMore, hasMore, allProducts,
                        lastLoadedPage, productData, error, dataPage,
                        effectPending>>]_vars

\* a trigger was issued with has-more false, on a non-empty list
C4_Witness ==
    /\ last = "refused"
    /\ ~hasMore
    /\ ~effectPending
    /\ allProducts # <<>>

\* C5: when an error is the result of the fetch for the current page,
\* processing it clears the in-flight flag and leaves list, has-more and
\* marker as they were when that fetch was started.
C5_ErrorLeavesStateAsBefore ==
    (/\ ~effectPending
     /\ last = "error"
     /\ delivered = 1)
    => /\ ~isLoadingMore
       /\ allProducts = atStart.list
       /\ hasMore = atStart.more
       /\ lastLoadedPage = atStart.marker

\* C6: the load-more trigger accepted after the fetch for the current page
\* ended in an error asks for the same page number again.
C6_RetryRequestsSamePage ==
    [][(/\ ~effectPending
        /\ last = "error"
        /\ lastLoadedPage # page
        /\ last' = "accepted") => page' = page]_vars

\* C7: from a fresh mount, once a full first page (pageSize items, distinct
\* identifiers) is the one result processed, the list is that page and
\* has-more is true, whether or not the effect first ran without data.
C7_FullFirstPageKeepsHasMore ==
    (/\ ~effectPending
     /\ last = "valid"
     /\ page = 1
     /\ delivered = 1
     /\ Len(productData.data) = pageSize
     /\ DistinctIds(productData.data))
    => /\ allProducts = productData.data
       /\ hasMore

\* C8: after an absent, non-array or empty-array response has been processed,
\* has-more is false, and on the first page the list is empty.
C8_NothingToShowEndsList ==
    (/\ Processed
     /\ (productData.kind # "array" \/ productData.data = <<>>))
    => /\ ~hasMore
       /\ (page = 1 => allProducts = <<>>)

\* C9: once has-more is false it is never true again.
C9_HasMoreNeverReturns == [][~hasMore => ~hasMore']_vars

\* has-more was already false when a full page of new items was merged on
\* the second page
C9_Witness ==
    /\ ~effectPending
    /\ last = "valid"
    /\ page > 1
    /\ delivered = 1
    /\ ~hasMore
    /\ Len(productData.data) = pageSize
    /\ Len(allProducts) = Len(atStart.list) + pageSize

\* C10: after a valid non-empty array has been processed on page 1, the list
\* is that array, item for item.
C10_FirstPageReplaces ==
    (/\ ~effectPending
     /\ last = "valid"
     /\ page = 1
     /\ productData.data # <<>>) => allProducts = productData.data

\* a first page that repeats an identifier was taken over as it is
C10_Witness ==
    /\ ~effectPending
    /\ last = "valid"
    /\ page = 1
    /\ Len(allProducts) = pageSize
    /\ ~DistinctIds(allProducts)
    /\ allProducts = productData.data

\* C13: whenever has-more is true (and the effects of the last render have
\* run), the load-more control is rendered, and it is disabled exactly when
\* the in-flight flag is set.
C13_ControlShownWhileHasMore ==
    (~effectPending /\ hasMore)
    => /\ Control \in {"enabled", "disabled"}
       /\ (Control = "disabled" <=> isLoadingMore)

IdsOf(s) == {s[k].id : k \in 1..Len(s)}

\* the items of a response whose identifier is not in a given list, in
\* response order
FreshItems(old, data) == SelectSeq(data, LAMBDA x : x.id \notin IdsOf(old))

\* C14: after a valid non-empty array has been processed on a page after the
\* first, the list is the list as it was when that page was requested,
\* followed by the response items whose identifier it did not hold, in
\* response order.
C14_MergeAppendsFreshItems ==
    (/\ ~effectPending
     /\ last = "valid"
     /\ page > 1
     /\ productData.data # <<>>)
    => allProducts = atStart.list \o FreshItems(atStart.list, productData.data)

\* a response on the second page was merged of which some items were
\* already held (with other contents) and some were new
C14_Witness ==
    /\ ~effectPending
    /\ last = "valid"
    /\ page > 1
    /\ atStart.list # <<>>
    /\ Len(allProducts) > Len(atStart.list)
    /\ Len(allProducts) < Len(atStart.list) + Len(productData.data)
    /\ \E k \in 1..Len(productData.data) :
           \E j \in 1..Len(atStart.list) :
               /\ productData.data[k].id = atStart.list[j].id
               /\ productData.data[k] # atStart.list[j]

\* C15: after a valid array that holds no identifier new to the list has been
\* processed on a page after the first, has-more is false and the list is as
\* it was, also when the array has pageSize items.
C15_NoFreshItemsEndsList ==
    (/\ ~effectPending
     /\ last = "valid"
     /\ page > 1
     /\ IdsOf(productData.data) \subseteq IdsOf(atStart.list))
    => /\ ~hasMore
       /\ allProducts = atStart.list

\* a full page without any new identifier was the first thing processed on
\* the second page, when has-more was still true
C15_Witness ==
    /\ ~effectPending
    /\ last = "valid"
    /\ page > 1
    /\ delivered = 1
    /\ dataPage < page
    /\ Len(productData.data) = pageSize
    /\ IdsOf(productData.data) \subseteq IdsOf(atStart.list)
    /\ ~hasMore

\* C16: the marker changes only to the current page number N, and only when
\* an array returned by the fetch for page N itself is merged: not on an
\* error, not on an absent or malformed response, and not on data that was
\* fetched for another page number.
C16_MarkerOnlyForOwnPage ==
    [][lastLoadedPage' # lastLoadedPage
         => /\ lastLoadedPage' = page
            /\ ~error
            /\ productData.kind = "array"
            /\ dataPage = page]_vars

\* C17: while the fetch started by an accepted load-more trigger has shown
\* the component neither data nor an error, the in-flight flag is set.
C17_InFlightWhileAwaiting ==
    (/\ ~effectPending
     /\ page > 1
     /\ delivered = 0
     /\ productData.kind = "absent"
     /\ ~error) => isLoadingMore

\* C18: after an accepted load-more trigger the in-flight flag is eventually
\* cleared: the effect run for the new page number is never stopped by the
\* marker guard and every other branch clears the flag.
C18_InFlightEventuallyCleared ==
    isLoadingMore ~> (~isLoadingMore /\ ~effectPending)

\* the effect processed the render of an accepted trigger and the flag is
\* clear
C18_Witness ==
    /\ ~effectPending
    /\ page > 1
    /\ last \in {"valid", "invalid", "error"}
    /\ ~isLoadingMore

\* C20: the page number is an integer >= 1, the marker lies between 0 and
\* the page number, and the page number changes only by +1, in a load-more
\* trigger issued with has-more true and nothing in flight.
C20_PageAndMarkerRange ==
    /\ [](page \in Nat /\ page >= 1 /\ lastLoadedPage \in 0..page)
    /\ [][page' # page
            => /\ page' = page + 1
               /\ TriggerStep
               /\ hasMore
               /\ ~isLoadingMore]_vars

\* the second page was requested after the first was merged
C20_Witness ==
    /\ page = 2
    /\ last = "accepted"
    /\ lastLoadedPage = 1

----------------------------------------------------------------------------
\* Properties of the detail page

\* the catalog entry the page was opened for, as the mock data define it
Original == Catalog[Find(Catalog, id)]

\* a step of handleChange
ChangeStep == detailLast' # detailLast /\ detailLast'.op = "change"

\* C11: after Cancel, edit mode is off and the working copy equals the
\* original product in every field, whatever was changed before.
C11_CancelRestoresOriginal ==
    detailLast.op = "cancel"
    => /\ ~isEditing
       /\ editedProduct = Original

\* Cancel was pressed on a working copy that differed from the original in
\* two fields of the product and held a field the product does not have
C11_Witness ==
    /\ detailLast.op = "cancel"
    /\ DOMAIN detailLast.prev # DOMAIN Original
    /\ detailLast.prev.name # Original.name
    /\ detailLast.prev.category # Original.category

\* C12: Confirm turns edit mode off, and no Edit, field change, Cancel or
\* Confirm changes the source catalog entry.
C12_SourceNeverChanges ==
    /\ [](products = Catalog)
    /\ [][(detailLast' # detailLast /\ detailLast'.op = "confirm")
            => (isEditing /\ ~isEditing')]_vars

\* Confirm was pressed on a working copy that differs from the source
C12_Witness ==
    /\ detailLast.op = "confirm"
    /\ ~isEditing
    /\ editedProduct # product
    /\ product = Original

\* C19: a field change for field f with value v makes the working copy hold
\* v at key f and leaves every other key of it, the edit-mode flag and the
\* catalog as they were.
C19_ChangeTouchesOneField ==
    [][ChangeStep
         => LET f == detailLast'.field
                v == detailLast'.value
            IN /\ DOMAIN editedProduct' = (DOMAIN editedProduct) \cup {f}
               /\ editedProduct'[f] = v
               /\ \A k \in (DOMAIN editedProduct) \ {f} :
                      editedProduct'[k] = editedProduct[k]
               /\ isEditing' = isEditing
               /\ products' = products]_vars

\* a field was changed on a working copy that already differed from the
\* product in another field
C19_Witness ==
    /\ detailLast.op = "change"
    /\ detailLast.field = "category"
    /\ editedProduct.category # product.category
    /\ editedProduct.name # product.name
    /\ editedProduct.name = detailLast.prev.name

====
